---------------------------- MODULE Spec2Model ----------------------------
(***************************************************************************)
(* A model of orsopt(), the Optimized Step Size Random Search driver of    *)
(* src/src/multivarious/optimization/ORSopt.py.                            *)
(*                                                                         *)
(* One search variable (n = 1) and one constraint (m = 1).  Floating point *)
(* numbers are fixed-point integers: a normalized coordinate is held in    *)
(* hundredths, so that the box [-1, 1] is -One .. One.  The values IEEE    *)
(* arithmetic produces on a division by zero (inf, nan) are kept as such.  *)
(* Objective values are integers.                                          *)
(***************************************************************************)
EXTENDS Integers, Sequences, FiniteSets, TLC

\* ------------------------------------------------------------ bounds
MaxBudget == 5      \* largest evaluation budget max_evals drawn

\* ------------------------------------------------- fixed-point numbers
One  == 100                          \* the normalized bound 1.0, in hundredths
Half == One \div 2

Abs(v) == IF v < 0 THEN -v ELSE v
Sgn(v) == IF v < 0 THEN -1 ELSE IF v > 0 THEN 1 ELSE 0
MaxOf(a, b) == IF a < b THEN b ELSE a

\* IEEE values: a finite number, +inf, -inf or nan.
Fin(v) == [k |-> "fin", v |-> v]
PInf   == [k |-> "inf", v |-> 1]
NInf   == [k |-> "inf", v |-> -1]
NaN    == [k |-> "nan", v |-> 0]
IsFin(e) == e.k = "fin"
Inf(s) == IF s > 0 THEN PInf ELSE NInf
\* the sign of an IEEE value that is not nan
ESgn(e) == IF e.k = "inf" THEN e.v ELSE Sgn(e.v)

\* num / den, the result scaled by `scale`; numpy divides by zero without
\* raising: x/0 is +-inf and 0/0 is nan (a RuntimeWarning at most).
FDiv(scale, num, den) ==
    IF den = 0
    THEN IF num = 0 THEN NaN ELSE Inf(num)
    ELSE Fin((scale * num * Sgn(den)) \div Abs(den))

\* e * x for an integer x
FMul(e, x) ==
    CASE e.k = "nan" -> NaN
      [] e.k = "inf" -> IF x = 0 THEN NaN ELSE Inf(e.v * x)
      [] OTHER       -> Fin(e.v * x)

FAdd(a, b) ==
    CASE a.k = "nan" \/ b.k = "nan" -> NaN
      [] a.k = "inf" /\ b.k = "inf" -> IF a.v = b.v THEN a ELSE NaN
      [] a.k = "inf" -> a
      [] b.k = "inf" -> b
      [] OTHER       -> Fin(a.v + b.v)

FNeg(a) == IF a.k = "nan" THEN NaN ELSE [k |-> a.k, v |-> -a.v]

\* a / b for two IEEE values, the result scaled by `scale`
FQuot(scale, a, b) ==
    CASE a.k = "nan" \/ b.k = "nan" -> NaN
      [] a.k = "inf" /\ b.k = "inf" -> NaN
      [] a.k = "inf" -> Inf(a.v * (IF b.v < 0 THEN -1 ELSE 1))
      [] b.k = "inf" -> Fin(0)
      [] OTHER       -> FDiv(scale, a.v, b.v)

\* np.clip(x, -1.0, 1.0): nan stays nan
Clip(e) ==
    CASE e.k = "nan" -> NaN
      [] e.k = "inf" -> Fin(e.v * One)
      [] OTHER       -> Fin(IF e.v < -One THEN -One ELSE IF e.v > One THEN One ELSE e.v)

InBox(e) == IsFin(e) /\ -One <= e.v /\ e.v <= One

\* ------------------------------------------------------------ inputs
InitVals  == {0, 1}                  \* x_init, original units
BoundVals == {-1, 1}                 \* x_lb, x_ub, original units
FVals     == {0, 1, 2}               \* objective values
\* func's constraint g (g < 0 feasible, values -1 and 1): feasible
\* everywhere, nowhere, or where x <= 0
GRules    == {"all", "none", "left"}
DirVals   == {-Half, Half}           \* random directions, in hundredths
AvgVals   == {1, 2}                  \* evaluations one evaluator call counts
\* tolerances as fractions <<numerator, denominator>>
Tight     == <<1, 1000>>
Loose     == <<3, 2>>
\* the pairs <<tol_x, tol_f>> drawn
TolPairs  == {<<Tight, Tight>>, <<Loose, Tight>>, <<Tight, Loose>>}
TolGVals  == {0}

VARIABLES
    pc,              \* position of the call
    x_init, x_lb, x_ub, bounds_given,           \* arguments
    tol_x, tol_f, tol_g, max_evals, find_feas,  \* options
    s0, s1, x1,      \* scaling and current point
    function_count, iteration, cvg_hst,
    fa, x4, g4,      \* the four candidate values; the quadratic point
    c4,              \* the auxiliary value of the quadratic point
    x2, g2, x3, g3, g1,
    fv,              \* the objective the seed evaluation returned
    f_opt, x_opt, g_opt, cvg_x, cvg_f,
    sigma, r, step, quad_update, i_min,
    evaluated,       \* the evaluator's answers so far: point -> [f, g]
    n_avg,           \* the evaluations the evaluator counts per call
    g_rule,          \* the constraint func computes
    returned,        \* the tuple the call returns
    handed,          \* the point of the latest evaluator call
    rng,             \* numpy's global RandomState, which np.random.randn reads
    outcome          \* how the call ended

vars == <<pc, x_init, x_lb, x_ub, bounds_given, tol_x, tol_f, tol_g, max_evals,
          find_feas, s0, s1, x1, function_count, iteration, cvg_hst, fa, x4, g4,
          c4, x2, g2, x3, g3, g1, fv, f_opt, x_opt, g_opt, cvg_x, cvg_f, sigma, r,
          step, quad_update, i_min, evaluated, n_avg, g_rule, returned, handed,
          rng, outcome>>

Unassigned == << >>                  \* a name not bound yet

\* ------------------------------------------------------ collaborators
\* the constraint value func computes at a point
ConstraintOf(x) ==
    CASE g_rule = "all"  -> -1
      [] g_rule = "none" -> 1
      [] OTHER           -> IF IsFin(x) /\ x.v <= 0 THEN -1 ELSE 1

\* avg_cov_func(func, x, s0, s1, options, consts, BX): the evaluator.  It is
\* deterministic for a fixed point: a point asked before gets the same answer,
\* a new point gets any objective value.
EvalAnswers(x) ==
    IF x \in DOMAIN evaluated
    THEN {evaluated[x]}
    ELSE {[f |-> f, g |-> ConstraintOf(x)] : f \in FVals}

\* the evaluation increment nAvg the evaluator reports
EvalIncrements == {n_avg}

\* the point the evaluator reports back: with BX = 1 the box-corrected point,
\* which is the point itself for a point of the box
EvalPoint(x) == Clip(x)

Remember(x, ans) ==
    IF x \in DOMAIN evaluated
    THEN evaluated
    ELSE [p \in DOMAIN evaluated \cup {x} |-> IF p = x THEN ans ELSE evaluated[p]]

\* ------------------------------------------------------ driver helpers
WideFactor == 100                    \* 1.0e2 of the default bounds

DefaultLb(x) == -WideFactor * Abs(x)
DefaultUb(x) == WideFactor * Abs(x)

\* s0 = (x_lb + x_ub) / (x_lb - x_ub).  With x_lb = x_ub the divisor is a zero
\* and numpy returns inf or nan.
ScaleOffset(lb, ub) == FDiv(One, lb + ub, lb - ub)
\* s1 = 2.0 / (x_ub - x_lb)
ScaleFactor(lb, ub) == FDiv(One, 2, ub - lb)
\* x1 = clip(s0 + s1 * x_init, -1, 1)
Normalize(o, f, x) == Clip(FAdd(o, FMul(f, x)))
\* (x - s0) / s1, in hundredths of the original unit
Denormalize(x, o, f) == FQuot(One, FAdd(x, FNeg(o)), f)

\* np.max(g) of a constraint vector
MaxG(g) == CHOOSE v \in {g[i] : i \in 1 .. Len(g)} :
               \A i \in 1 .. Len(g) : g[i] <= v

\* the scalar test left out
ScalarCheck_skipped(v) == TRUE

\* np.isscalar(fv); an objective is [scalar, f]: a number f, or an array
ScalarCheck(v) == v.scalar

\* the count left as it was
Counted_dropped(count, nAvg) == count

\* function_count += nAvg
Counted(count, nAvg) == count + nAvg

\* one column of cvg_hst
Column(x, f, g, count, cx, cf) ==
    [x |-> x, f |-> f, g |-> MaxG(g), n |-> count, cvg_x |-> cx, cvg_f |-> cf]

Sentinel == <<1, 1>>                 \* the ratio 1.0

\* np.random.randn(n) reads the module-level generator of numpy, one object
\* for the whole process: the value returned is a function of its state and
\* the call advances the state.  A generator of period two stands for it.
RngStates == 0 .. 1
Randn(state) == CHOOSE z \in DirVals : (z < 0) <=> (state = 0)
Advance(state) == 1 - state

\* --------------------------------------------------------------- Init
Init ==
    /\ pc = "start"
    /\ x_init \in InitVals
    /\ bounds_given \in BOOLEAN
    /\ x_lb \in (IF bounds_given THEN BoundVals ELSE {0})
    /\ x_ub \in (IF bounds_given THEN BoundVals ELSE {0})
    /\ \E tp \in TolPairs : tol_x = tp[1] /\ tol_f = tp[2]
    /\ tol_g \in TolGVals
    /\ max_evals \in 1 .. MaxBudget
    /\ find_feas \in BOOLEAN
    /\ s0 = Fin(0) /\ s1 = Fin(0) /\ x1 = Fin(0)
    /\ function_count = 0
    /\ iteration = 0
    /\ cvg_hst = << >>
    /\ fa = <<0, 0, 0, 0>>
    /\ x2 = Fin(0) /\ x3 = Fin(0) /\ x4 = Fin(0)
    /\ g1 = Unassigned /\ g2 = Unassigned /\ g3 = Unassigned /\ g4 = Unassigned
    /\ c4 = Unassigned
    /\ fv = [scalar |-> TRUE, f |-> 0]
    /\ f_opt = 0 /\ x_opt = Fin(0) /\ g_opt = Unassigned
    /\ cvg_x = Sentinel /\ cvg_f = Sentinel
    /\ sigma = <<0, 1>>
    /\ r = 0 /\ step = 0 /\ quad_update = FALSE /\ i_min = 0
    /\ evaluated = << >>
    /\ n_avg \in AvgVals
    /\ g_rule \in GRules
    /\ returned = Unassigned
    /\ handed = Fin(0)
    /\ rng \in RngStates
    /\ outcome = "running"

\* lines 46-75: default bounds, scaling, clipping, book-keeping
Normalise ==
    /\ pc = "start"
    /\ LET lb == IF bounds_given THEN x_lb ELSE DefaultLb(x_init)
           ub == IF bounds_given THEN x_ub ELSE DefaultUb(x_init)
       IN /\ x_lb' = lb
          /\ x_ub' = ub
          /\ s0' = ScaleOffset(lb, ub)
          /\ s1' = ScaleFactor(lb, ub)
          /\ x1' = Normalize(ScaleOffset(lb, ub), ScaleFactor(lb, ub), x_init)
    /\ function_count' = 0
    /\ iteration' = 1
    /\ fa' = <<0, 0, 0, 0>>
    /\ pc' = "seed"
    /\ UNCHANGED <<rng, n_avg, g_rule, fv, x_init, bounds_given, tol_x, tol_f, tol_g,
                   max_evals, find_feas,
                   cvg_hst, x4, g4, x2, g2, x3, g3, g1, f_opt, x_opt, g_opt,
                   cvg_x, cvg_f, sigma, r, step, quad_update, c4, i_min, evaluated,
                   returned, handed, outcome>>

\* the loop test off by one
LoopGuard_inclusive(count, budget) == count <= budget

\* while function_count < max_evals
LoopGuard(count, budget) == count < budget

\* cvg_hst[:, :k]; the last cell is back-filled only when it is not finite,
\* which a recorded ratio never is
OutHist(h, k) == SubSeq(h, 1, k)

\* lines 217-244: scale back; the tuple returned
Result(xo, fo, go, hist, it) ==
    [x_opt |-> Denormalize(xo, s0, s1), f_opt |-> fo, g_opt |-> go,
     cvg_hst |-> OutHist(hist, MaxOf(1, it))]

\* lines 77-105: the seed evaluation and the initial records; then the first
\* loop test of line 108 and, with the budget used up already, the return
SeedEval ==
    /\ pc = "seed"
    /\ \E ans \in EvalAnswers(x1), nAvg \in EvalIncrements, isScalar \in BOOLEAN :
         LET xr == EvalPoint(x1)
             gv == <<ans.g>>
             cnt == Counted(function_count, nAvg)
             col == Column(Denormalize(xr, s0, s1), ans.f, gv, cnt, Sentinel, Sentinel)
         IN /\ handed' = x1
            /\ evaluated' = Remember(x1, ans)
            /\ function_count' = cnt
            /\ x1' = xr
            /\ fv' = [scalar |-> isScalar, f |-> ans.f]
            /\ IF ~ScalarCheck([scalar |-> isScalar, f |-> ans.f])
               THEN /\ pc' = "error"
                    /\ outcome' = "ValueError"
                    /\ UNCHANGED <<f_opt, x_opt, g_opt, cvg_hst, sigma, fa,
                                   x2, g2, x3, g3, x4, g4, returned>>
               ELSE /\ f_opt' = ans.f
                    /\ x_opt' = xr
                    /\ g_opt' = gv
                    /\ cvg_hst' = << col >>
                    /\ sigma' = <<1, 5>>
                    /\ fa' = <<ans.f, 0, 0, ans.f>>
                    /\ x2' = xr /\ g2' = gv
                    /\ x3' = xr /\ g3' = gv
                    /\ x4' = xr /\ g4' = gv
                    /\ IF LoopGuard(cnt, max_evals)
                       THEN pc' = "top" /\ outcome' = outcome /\ returned' = returned
                       ELSE /\ pc' = "done"
                            /\ outcome' = "budget"
                            /\ returned' = Result(xr, ans.f, gv, << col >>, iteration)
    /\ UNCHANGED <<rng, n_avg, g_rule, x_init, x_lb, x_ub, bounds_given, tol_x, tol_f,
                   tol_g, max_evals, find_feas, s0, s1, iteration, g1, cvg_x,
                   cvg_f, r, step, quad_update, c4, i_min>>

\* ------------------------------------------------------ the main loop
\* r = sigma * np.random.randn(n)
RandomDirection(sg) ==
    IF sg[1] = 0 THEN {0} ELSE {Sgn(sg[1]) * Randn(rng)}

\* line 110 run by another orsopt call of the same process (another thread):
\* its np.random.randn(n) advances the same generator.  Only the draws that
\* fall between this call's steps and its next read of the generator, at
\* the loop top, are told apart from none.
OtherDraw ==
    /\ pc = "top"
    /\ rng' = Advance(rng)
    /\ UNCHANGED <<pc, x_init, x_lb, x_ub, bounds_given, tol_x, tol_f, tol_g,
                   max_evals, find_feas, s0, s1, x1, function_count, iteration,
                   cvg_hst, fa, x4, g4, c4, x2, g2, x3, g3, g1, fv, f_opt, x_opt,
                   g_opt, cvg_x, cvg_f, sigma, r, step, quad_update, i_min,
                   evaluated, n_avg, g_rule, returned, handed, outcome>>

\* box_constraint(x, dir)[0]: the largest multiplier a in [0, 1] that keeps
\* x + a * dir in the box, as the fraction <<numerator, denominator>>
box_constraint(x, dir) ==
    IF ~IsFin(x) \/ dir = 0
    THEN <<1, 1>>
    ELSE <<Abs(Clip(Fin(x.v + dir)).v - x.v), Abs(dir)>>

\* x + a * dir
Moved(x, a, dir) ==
    IF IsFin(x) THEN Fin(x.v + (a[1] * dir) \div a[2]) ELSE NaN

\* step = +2.0 if fa[1] < fa[0] else -1.0   (fa is kept 1-based here)
StepFactor(f) == IF f[2] < f[1] THEN 2 ELSE -1

\* np.linalg.norm(x - y) of two points, in hundredths
Dist(x, y) == Abs(x.v - y.v)

SetFa(f, i, v) == [f EXCEPT ![i] = v]

\* lines 109-117: the random direction and the forward probe
ForwardProbe ==
    /\ pc = "top"
    /\ \E dir \in RandomDirection(sigma) :
         LET p2 == Moved(x1, box_constraint(x1, dir), dir)
         IN \E ans \in EvalAnswers(p2), nAvg \in EvalIncrements :
              /\ r' = dir
              /\ rng' = Advance(rng)
              /\ handed' = p2
              /\ evaluated' = Remember(p2, ans)
              /\ x2' = EvalPoint(p2)
              /\ g2' = <<ans.g>>
              /\ function_count' = Counted(function_count, nAvg)
              /\ fa' = SetFa(fa, 2, ans.f)
    /\ pc' = "sec"
    /\ UNCHANGED <<n_avg, g_rule, fv, x_init, x_lb, x_ub, bounds_given, tol_x,
                   tol_f, tol_g, max_evals,
                   find_feas, s0, s1, x1, iteration, cvg_hst, x4, g4, x3, g3, g1,
                   f_opt, x_opt, g_opt, cvg_x, cvg_f, sigma, step, quad_update, c4,
                   i_min, returned, outcome>>

\* lines 119-125: the secondary probe, at +2 or -1 times the direction
SecondaryProbe ==
    /\ pc = "sec"
    /\ LET st == StepFactor(fa)
           p3 == Moved(x1, box_constraint(x1, st * r), st * r)
       IN \E ans \in EvalAnswers(p3), nAvg \in EvalIncrements :
            /\ step' = st
            /\ handed' = p3
            /\ evaluated' = Remember(p3, ans)
            /\ x3' = EvalPoint(p3)
            /\ g3' = <<ans.g>>
            /\ function_count' = Counted(function_count, nAvg)
            /\ fa' = SetFa(fa, 3, ans.f)
    /\ pc' = "quad"
    /\ UNCHANGED <<rng, n_avg, g_rule, fv, x_init, x_lb, x_ub, bounds_given, tol_x,
                   tol_f, tol_g, max_evals,
                   find_feas, s0, s1, x1, iteration, cvg_hst, x4, g4, x2, g2, g1,
                   f_opt, x_opt, g_opt, cvg_x, cvg_f, sigma, r, quad_update, c4,
                   i_min, returned, outcome>>

\* ------------------------------------------------- the quadratic fit
\* lines 127-135 solve A [a b c]' = fa[:3] with
\*     A = [0 0 1; dx2^2/2 dx2 1; dx3^2/2 dx3 1] + e * I,  e = 1e-9.
\* By Cramer's rule a = Na(e) / D(e) and b = Nb(e) / D(e), polynomials in e.
\* With u2 = |x2 - x1|, u3 = |x3 - x1|, R = |r| (dx2 = u2/R, dx3 = u3/R) their
\* coefficients, lowest order first, are the tuples below (each tuple scaled
\* by one positive factor: R, 2R^2 and 2R^3).  Since e is tiny, the value of
\* a polynomial is decided by its first non-zero coefficient.
Regular(n) == IF n = 0 THEN 1 ELSE n     \* norm(r) + 1e-16 of a zero r

NaCoef(f, u2, u3, R) ==
    << f[1] * (u2 - u3) + f[2] * u3 - f[3] * u2,
       f[1] * (R + u2) - f[3] * R,
       f[1] * R >>

NbCoef(f, u2, u3, R) ==
    << u2 * u2 * (f[3] - f[1]) - u3 * u3 * (f[2] - f[1]),
       2 * R * R * (f[2] - f[3]) - f[1] * u2 * u2,
       2 * R * R * f[2] >>

DetCoef(u2, u3, R) ==
    << u2 * u3 * (u2 - u3),
       R * (2 * R * (u2 - u3) - u3 * u3),
       2 * R * R * (R + u2) >>

\* the order of the first non-zero coefficient, 0 when all are zero
Lead(c) ==
    IF c[1] # 0 THEN 1 ELSE IF c[2] # 0 THEN 2 ELSE IF c[3] # 0 THEN 3 ELSE 0

LeadSgn(c) == IF Lead(c) = 0 THEN 0 ELSE Sgn(c[Lead(c)])

\* When the exact a is zero or of order e^2 while the determinant is not, the
\* a that the floating-point solve returns is rounding noise: its sign, and
\* with it d = -b / a, is whatever the build produces.
QuadNoise(f, u2, u3, R) ==
    /\ f[1] # 0 \/ f[2] # 0 \/ f[3] # 0
    /\ \/ Lead(NaCoef(f, u2, u3, R)) = 0
       \/ Lead(NaCoef(f, u2, u3, R)) = 3 /\ Lead(DetCoef(u2, u3, R)) < 3

\* the outcomes of the test  a > 0.0  (a is nan, and the test false, once
\* the points are nan)
QuadConvex(f, p1, p2, p3, dir) ==
    IF ~(IsFin(p1) /\ IsFin(p2) /\ IsFin(p3))
    THEN {FALSE}
    ELSE LET R == Regular(Abs(dir))
             u2 == Dist(p2, p1)
             u3 == Dist(p3, p1)
         IN IF QuadNoise(f, u2, u3, R)
            THEN BOOLEAN
            ELSE {LeadSgn(NaCoef(f, u2, u3, R)) * LeadSgn(DetCoef(u2, u3, R)) > 0}

\* integer quotient rounded toward zero
Quot(a, b) == Sgn(a) * Sgn(b) * (Abs(a) \div Abs(b))

\* the values of d * r with d = -b / a, in hundredths; a quotient of order
\* 1/e leaves the box whatever the point is
QuadStep(f, p1, p2, p3, dir) ==
    LET R == Regular(Abs(dir))
        u2 == Dist(p2, p1)
        u3 == Dist(p3, p1)
        na == NaCoef(f, u2, u3, R)
        nb == NbCoef(f, u2, u3, R)
    IN CASE QuadNoise(f, u2, u3, R) -> {-2 * One, -Half, 0, Half, 2 * One}
         [] Lead(nb) = 0 \/ Lead(nb) > Lead(na) -> {0}
         [] Lead(nb) = Lead(na) ->
                {Quot(-Sgn(dir) * nb[Lead(nb)], 2 * na[Lead(na)])}
         [] OTHER -> {-Sgn(dir) * LeadSgn(nb) * LeadSgn(na) * 2 * One}

\* the auxiliary value (fourth item) of an evaluator answer; the driver only
\* copies it, so that one value stands for all
Aux(ans) == <<0>>

\* lines 137-145, a > 0: the zero-slope point is evaluated as candidate 4
QuadProbe ==
    /\ pc = "quad"
    /\ TRUE \in QuadConvex(fa, x1, x2, x3, r)
    /\ \E dr \in QuadStep(fa, x1, x2, x3, r) :
         LET p4 == Moved(x1, box_constraint(x1, dr), dr)
         IN \E ans \in EvalAnswers(p4), nAvg \in EvalIncrements :
            /\ handed' = p4
            /\ evaluated' = Remember(p4, ans)
            /\ x4' = EvalPoint(p4)
            /\ g4' = <<ans.g>>
            /\ function_count' = Counted(function_count, nAvg)
            /\ fa' = SetFa(fa, 4, ans.f)
            /\ c4' = Aux(ans)
    /\ quad_update' = TRUE
    /\ pc' = "select"
    /\ UNCHANGED <<rng, n_avg, g_rule, fv, x_init, x_lb, x_ub, bounds_given, tol_x,
                   tol_f, tol_g, max_evals,
                   find_feas, s0, s1, x1, iteration, cvg_hst, x2, g2, x3, g3, g1,
                   f_opt, x_opt, g_opt, cvg_x, cvg_f, sigma, r, step,
                   i_min, returned, outcome>>

\* lines 137-138, a <= 0: candidate 4 is left as it was
QuadSkip ==
    /\ pc = "quad"
    /\ FALSE \in QuadConvex(fa, x1, x2, x3, r)
    /\ quad_update' = FALSE
    /\ pc' = "select"
    /\ UNCHANGED <<rng, n_avg, g_rule, fv, x_init, x_lb, x_ub, bounds_given, tol_x,
                   tol_f, tol_g, max_evals,
                   find_feas, s0, s1, x1, function_count, iteration, cvg_hst, fa,
                   x4, g4, c4, x2, g2, x3, g3, g1, f_opt, x_opt, g_opt, cvg_x,
                   cvg_f, sigma, r, step, i_min, evaluated, returned, handed,
                   outcome>>

\* ------------------------------------- selection, incumbent, termination
\* the last index holding the least value
ArgMin_lastmin(f) ==
    CHOOSE i \in 0 .. 3 :
        /\ \A j \in 0 .. 3 : f[i + 1] <= f[j + 1]
        /\ \A j \in 0 .. 3 : j > i => f[j + 1] > f[i + 1]

\* the least of the first three candidates, the quadratic one left out
ArgMin_noquad(f) ==
    CHOOSE i \in 0 .. 2 :
        /\ \A j \in 0 .. 2 : f[i + 1] <= f[j + 1]
        /\ \A j \in 0 .. 2 : j < i => f[j + 1] > f[i + 1]

\* int(np.argmin(fa)): the first index (0-based) holding the least value
ArgMin(f) ==
    CHOOSE i \in 0 .. 3 :
        /\ \A j \in 0 .. 3 : f[i + 1] <= f[j + 1]
        /\ \A j \in 0 .. 3 : j < i => f[j + 1] > f[i + 1]

\* index 2 taking the fourth candidate
Chosen_slip(i, k1, k2, k3, k4) ==
    CASE i = 0 -> k1 [] i = 1 -> k2 [] OTHER -> k4

\* lines 149-156: the candidate the index names
Chosen(i, k1, k2, k3, k4) ==
    CASE i = 0 -> k1 [] i = 1 -> k2 [] i = 2 -> k3 [] OTHER -> k4

RECURSIVE Gcd(_, _)
Gcd(a, b) == IF b = 0 THEN a ELSE Gcd(b, a % b)

\* a fraction in lowest terms, the denominator positive
Reduced(n, d) ==
    LET g == Gcd(Abs(n), Abs(d)) IN <<(n * Sgn(d)) \div g, Abs(d) \div g>>

\* sigma * (1.0 - function_count / max_evals) ** nu, nu = 1, as a fraction
Shrunk(sg, count, budget) == Reduced(sg[1] * (budget - count), sg[2] * budget)

\* the scale shrunk whichever candidate is selected
Shrinks_always(i) == TRUE

\* if i_min > 0: the selection is not the base point
Shrinks(i) == i > 0

\* a selected point as good as the incumbent recorded too
Improves_weak(fsel, fbest) == fsel <= fbest

\* every selected point recorded as the new incumbent
Improves_any(fsel, fbest) == TRUE

\* if fa[i_min] < f_opt
Improves(fsel, fbest) == fsel < fbest

\* the history allocated one column short
Capacity_tight(budget) == MaxOf(1, budget - 1)

\* the columns cvg_hst is allocated with
Capacity(budget) == MaxOf(1, budget)

\* a ratio is <<numerator, denominator>>; a zero denominator stands for the
\* guard 1e-16, <<0, -1>> for nan
RatioNaN == <<0, -1>>

\* norm(prev - xx) / (norm(xx) + 1e-16) if prev is finite, else 1.0
CvgX(prev, xx) ==
    IF ~IsFin(prev) THEN Sentinel
    ELSE IF ~IsFin(xx) THEN RatioNaN
    ELSE <<Abs(prev.v - xx.v), Abs(xx.v)>>

\* abs(prev_f - f_opt) / (abs(f_opt) + 1e-16)
CvgF(prevf, f) == <<Abs(prevf - f), Abs(f)>>

\* ratio < tol
Less(c, tol) ==
    IF c[2] < 0 THEN FALSE
    ELSE IF c[2] = 0 THEN c[1] = 0 /\ tol[1] > 0
    ELSE c[1] * tol[2] < tol[1] * c[2]

\* the feasibility stop never taken
FeasibleStop_never(g, tg, ff) == FALSE

\* if np.max(g_opt) < tol_g and find_feas
FeasibleStop(g, tg, ff) == MaxG(g) < tg /\ ff

\* the convergence stop taken before any improving iteration
ConvergedStop_early(it, cx, cf, tx, tf) == Less(cx, tx) \/ Less(cf, tf)

\* if iteration > 1 and (cvg_x < tol_x or cvg_f < tol_f)
ConvergedStop(it, cx, cf, tx, tf) == it > 1 /\ (Less(cx, tx) \/ Less(cf, tf))

\* line 156, x1, g1, c1 = x4, g4, c4: candidate 4 selected while c4, which
\* only line 142 assigns, is not bound
ReadsUnbound(i, aux) == i = 3 /\ aux = Unassigned

\* lines 147-210: choose the best of the four, shrink sigma, re-clip, update
\* the incumbent and the history, then test the two stops; a stop, or the loop
\* test of line 108 failing, leads to the return of lines 212-244.  Each
\* intermediate value is bound once, to the one value the code computes.
SelectUpdate ==
    /\ pc = "select"
    /\ \E im \in {ArgMin(fa)} :
       \E xs \in {Chosen(im, x1, x2, x3, x4)},
          gs \in {Chosen(im, g1, g2, g3, g4)},
          imp \in {Improves(fa[im + 1], f_opt)} :
       \E xn \in {Clip(xs)} :
       \E xx \in {Denormalize(xn, s0, s1)} :
       \E cx \in {IF imp THEN CvgX(cvg_hst[iteration].x, xx) ELSE cvg_x},
          cf \in {IF imp THEN CvgF(cvg_hst[iteration].f, fa[im + 1]) ELSE cvg_f},
          it \in {IF imp THEN iteration + 1 ELSE iteration},
          xo \in {IF imp THEN xn ELSE x_opt},
          fo \in {IF imp THEN fa[im + 1] ELSE f_opt},
          go \in {IF imp THEN gs ELSE g_opt} :
       \E hst \in {IF imp /\ gs # Unassigned
                   THEN Append(cvg_hst, Column(xx, fo, go, function_count, cx, cf))
                   ELSE cvg_hst} :
          /\ i_min' = im
          /\ g1' = IF ReadsUnbound(im, c4) THEN g1 ELSE gs
          /\ sigma' = IF Shrinks(im) /\ ~ReadsUnbound(im, c4)
                       THEN Shrunk(sigma, function_count, max_evals)
                       ELSE sigma
          /\ x1' = IF ReadsUnbound(im, c4) THEN x1 ELSE xn
          /\ IF ReadsUnbound(im, c4) \/ (imp /\ gs = Unassigned)
             THEN /\ pc' = "error"
                  /\ outcome' = "NameError"
                  /\ UNCHANGED <<x_opt, f_opt, g_opt, cvg_x, cvg_f, iteration,
                                 cvg_hst, returned>>
             ELSE IF imp /\ it > Capacity(max_evals)
             THEN /\ pc' = "error"
                  /\ outcome' = "IndexError"
                  /\ x_opt' = xo /\ f_opt' = fo /\ g_opt' = go
                  /\ cvg_x' = cx /\ cvg_f' = cf /\ iteration' = it
                  /\ UNCHANGED <<cvg_hst, returned>>
             ELSE /\ x_opt' = xo /\ f_opt' = fo /\ g_opt' = go
                  /\ cvg_x' = cx /\ cvg_f' = cf /\ iteration' = it
                  /\ cvg_hst' = hst
                  /\ outcome' =
                        (IF FeasibleStop(go, tol_g, find_feas) THEN "feasible"
                         ELSE IF ConvergedStop(it, cx, cf, tol_x, tol_f) THEN "converged"
                         ELSE IF ~LoopGuard(function_count, max_evals) THEN "budget"
                         ELSE outcome)
                  /\ IF \/ FeasibleStop(go, tol_g, find_feas)
                        \/ ConvergedStop(it, cx, cf, tol_x, tol_f)
                        \/ ~LoopGuard(function_count, max_evals)
                     THEN pc' = "done" /\ returned' = Result(xo, fo, go, hst, it)
                     ELSE pc' = "top" /\ returned' = returned
    /\ UNCHANGED <<rng, n_avg, g_rule, fv, x_init, x_lb, x_ub, bounds_given, tol_x, tol_f,
                   tol_g, max_evals, find_feas, s0, s1, function_count, fa, x4, g4,
                   x2, g2, x3, g3, r, step, quad_update, c4, evaluated, handed>>

\* the steps of this call
Driver ==
    \/ Normalise
    \/ SeedEval
    \/ ForwardProbe
    \/ SecondaryProbe
    \/ QuadProbe
    \/ QuadSkip
    \/ SelectUpdate

Next ==
    \/ Driver
    \/ OtherDraw

Spec == Init /\ [][Next]_vars

\* ===================================================== properties
Seeded == pc \in {"top", "sec", "quad", "select", "done"}

\* the number of evaluator calls so far: every call adds n_avg to the count
Calls == function_count \div n_avg

\* ----------------------------------------------------------------- C1
\* C1: every normalized point handed to the evaluator, the seed and every
\* probe, has its component in [-1, 1].
C1_HandedInBox == Calls > 0 => InBox(handed)

\* what is left of C1: apart from a start that is not a number, every point
\* handed over lies in the box
HandedInBoxFromNumber ==
    (Calls > 0 /\ ~InBox(handed)) => (handed = NaN /\ x_lb = x_ub)

\* ----------------------------------------------------------------- C2
\* C2: the objective row of the convergence history never increases from
\* one column to the next, in the history kept and in the history returned.
C2_HistoryNonIncreasing ==
    /\ \A i \in 2 .. Len(cvg_hst) : cvg_hst[i].f <= cvg_hst[i - 1].f
    /\ pc = "done" =>
          \A i \in 2 .. Len(returned.cvg_hst) :
              returned.cvg_hst[i].f <= returned.cvg_hst[i - 1].f

C2_Witness ==
    /\ pc = "done"
    /\ Len(returned.cvg_hst) = 3
    /\ returned.cvg_hst[3].f < returned.cvg_hst[2].f
    /\ returned.cvg_hst[2].f < returned.cvg_hst[1].f

\* ----------------------------------------------------------------- C3
\* C3: once the seed is recorded, the best objective and the best constraint
\* vector are what the evaluator answered at the best point, between any two
\* steps of the loop; the tuple returned holds the same three, the point
\* scaled back.
C3_IncumbentConsistent ==
    /\ Seeded =>
          /\ x_opt \in DOMAIN evaluated
          /\ f_opt = evaluated[x_opt].f
          /\ g_opt = <<evaluated[x_opt].g>>
    /\ pc = "done" =>
          /\ returned.f_opt = f_opt
          /\ returned.g_opt = g_opt
          /\ returned.x_opt = Denormalize(x_opt, s0, s1)

C3_Witness ==
    /\ pc = "done"
    /\ iteration > 1
    /\ i_min = 2
    /\ f_opt = fa[3]
    /\ x_opt = x3
    /\ evaluated[x4].f # evaluated[x3].f

\* ----------------------------------------------------------------- C4
\* the seed evaluation found the initial guess feasible
SeedFeasible == Seeded /\ cvg_hst[1].g < tol_g

\* C4 as stated: with the stop-on-feasible flag set and a feasible initial
\* guess the run returns with the evaluation count of the seed, the evaluator
\* called once.
C4_NoEvaluationAfterSeed ==
    (pc = "done" /\ find_feas /\ SeedFeasible) =>
        (Calls = 1 /\ function_count = cvg_hst[1].n)

\* C4 amended: with the flag set and a feasible initial guess the run returns
\* without another evaluator call only when the seed used up the budget;
\* otherwise the first iteration runs in full, two or three more calls, and
\* the run stops at its end by the feasibility stop unless the iteration
\* replaced the incumbent by an infeasible point; the loop goes on only while
\* the incumbent is infeasible.
C4_StopsAtEndOfIteration ==
    (find_feas /\ SeedFeasible) =>
        /\ (pc = "done" /\ cvg_hst[1].n >= max_evals) =>
              (Calls = 1 /\ outcome = "budget")
        /\ (pc = "done" /\ cvg_hst[1].n < max_evals) =>
              /\ Calls >= 3
              /\ function_count >= cvg_hst[1].n + 2 * n_avg
        /\ (pc = "done" /\ cvg_hst[1].n < max_evals /\ iteration = 1) =>
              (outcome = "feasible" /\ Calls \in {3, 4})
        /\ (pc = "top" /\ Calls > 1) =>
              (iteration > 1 /\ MaxG(g_opt) >= tol_g)

C4_Witness ==
    /\ pc = "done"
    /\ find_feas
    /\ SeedFeasible
    /\ cvg_hst[1].n < max_evals
    /\ iteration = 1
    /\ outcome = "feasible"
    /\ function_count = cvg_hst[1].n + 2 * n_avg

\* ----------------------------------------------------------------- C5
\* no point evaluated so far has an objective below the seed's
NoBetter == Seeded /\ \A p \in DOMAIN evaluated : evaluated[p].f >= fa[1]

\* C5 as stated: with one evaluation per call and an objective that never
\* improves on the seed the count never exceeds the budget, the run ends by
\* budget exhaustion and the count at return is the budget.
C5_ExactBudget ==
    (n_avg = 1 /\ ~find_feas /\ NoBetter) =>
        /\ function_count <= max_evals
        /\ pc = "done" => (outcome = "budget" /\ function_count = max_evals)

\* C5 amended: with one evaluation per call and an objective that never
\* improves on the seed the run never ends by convergence; it ends by budget
\* exhaustion, or by the feasibility stop when the flag is set.  The budget is
\* tested before an iteration only: the count is below the budget whenever an
\* iteration starts, and at a return by budget exhaustion it is at least the
\* budget and at most the budget plus two.
C5_BudgetTestedAtLoopTop ==
    (n_avg = 1 /\ NoBetter) =>
        /\ iteration = 1
        /\ outcome # "converged"
        /\ function_count <= max_evals + 2
        /\ pc = "top" => function_count < max_evals
        /\ pc = "done" => outcome \in {"budget", "feasible"}
        /\ (pc = "done" /\ outcome = "feasible") => find_feas
        /\ (pc = "done" /\ outcome = "budget") => function_count >= max_evals

C5_Witness ==
    /\ pc = "done"
    /\ n_avg = 1
    /\ NoBetter
    /\ ~find_feas
    /\ max_evals = MaxBudget
    /\ outcome = "budget"
    /\ function_count = max_evals + 2

\* ----------------------------------------------------------------- C6
\* the thread running this call takes its next step whenever it has one
FairSpec == Spec /\ WF_vars(Driver)

\* C6: every run ends, at the return or at an error; an error is raised by
\* the seed evaluation only, with no iteration run, so a loop that was entered
\* reaches the return; the return is reached through the feasibility stop,
\* the convergence stop or budget exhaustion.  The loop is bounded by the
\* evaluations: each of the seed, forward and secondary evaluations advances
\* the count, and an iteration starts only with the count below the budget.
C6_Terminates ==
    /\ <>(pc \in {"done", "error"})
    /\ [][(pc \in {"seed", "top", "sec"} /\ pc' # pc) =>
              (function_count < function_count')]_vars
    /\ [](pc = "top" => function_count < max_evals)
    /\ [][pc' = "error" => pc = "seed"]_vars
    /\ [](pc = "done" => outcome \in {"feasible", "converged", "budget"})
    /\ [](pc = "error" => outcome = "ValueError")

C6_Witness ==
    /\ pc = "done"
    /\ outcome = "budget"
    /\ n_avg = 1
    /\ Calls = MaxBudget
    /\ iteration = 3

\* ----------------------------------------------------------------- C7
\* C7: when the objective of the seed evaluation is not a scalar the call
\* has failed with the error, after the one evaluator call, with no
\* iteration run and nothing returned.
C7_NonScalarFails ==
    (Calls > 0 /\ ~fv.scalar) =>
        /\ pc = "error"
        /\ outcome = "ValueError"
        /\ Calls = 1
        /\ i_min = 0 /\ r = 0 /\ step = 0
        /\ returned = Unassigned
        /\ ~ENABLED Next

C7_Witness ==
    /\ pc = "error"
    /\ ~fv.scalar
    /\ Calls = 1
    /\ function_count = n_avg

\* ----------------------------------------------------------------- C8
\* C8: with a lower bound above its upper bound the call fails before the
\* evaluator is called: no evaluation is counted and nothing is returned.
C8_MalformedBoundsFail ==
    (pc # "start" /\ x_lb > x_ub) => (Calls = 0 /\ returned = Unassigned)

\* ----------------------------------------------------------------- C9
\* C9: with a lower bound equal to its upper bound, given or default, the
\* scaling divides by no zero: its two constants are finite numbers, or the
\* call has failed before any evaluation.
C9_NoDivisionByZero ==
    (pc # "start" /\ x_lb = x_ub) =>
        \/ IsFin(s0) /\ IsFin(s1)
        \/ pc = "error" /\ Calls = 0

\* ---------------------------------------------------------------- C10
\* C10: at the selection step the value paired with the base candidate is
\* the objective the evaluator gave for the current point x1.
C10_BaseValueCurrent ==
    (pc = "select" /\ x1 \in DOMAIN evaluated) => fa[1] = evaluated[x1].f

\* ---------------------------------------------------------------- C11
\* C11: an iteration whose fit is not convex, candidate 4 not evaluated,
\* never selects candidate 4.
C11_NoStaleQuadratic ==
    (pc \in {"top", "done"} /\ ~quad_update) => i_min # 3

\* ---------------------------------------------------------------- C12
\* C12: the secondary probe is taken at 2 times the direction exactly when
\* the forward probe's objective is below the best objective so far, and at
\* -1 times the direction otherwise.
C12_StepFromIncumbent ==
    pc = "quad" => (step = (IF fa[2] < f_opt THEN 2 ELSE -1))

\* ---------------------------------------------------------------- C13
\* C13: an iteration whose selected objective is strictly below the best
\* objective appends exactly one record, holding the new best, and replaces
\* the best point, objective and constraints by the selected candidate's;
\* every other iteration leaves the four as they were.
C13_RecordIffImproved ==
    [][(pc = "select") =>
          IF fa[i_min' + 1] < f_opt
          THEN /\ cvg_hst' # cvg_hst
               /\ Len(cvg_hst') = Len(cvg_hst) + 1
               /\ SubSeq(cvg_hst', 1, Len(cvg_hst)) = cvg_hst
               /\ cvg_hst'[Len(cvg_hst')].f = f_opt'
               /\ iteration' = iteration + 1
               /\ f_opt' = fa[i_min' + 1]
               /\ x_opt' = x1'
               /\ g_opt' = g1'
          ELSE UNCHANGED <<x_opt, f_opt, g_opt, cvg_hst, iteration>>]_vars

\* an iteration selected a candidate as good as the best, after one that had
\* improved on it: two records, no third
C13_Witness ==
    /\ pc = "done"
    /\ Len(cvg_hst) = 2
    /\ i_min > 0
    /\ fa[i_min + 1] = f_opt
    /\ cvg_hst[2].n < function_count

\* ---------------------------------------------------------------- C14
\* C14: an iteration that selects a candidate other than the base point
\* multiplies the step-scale by (1 - evaluations/budget)^nu, nu = 1, and an
\* iteration that selects the base point leaves the step-scale as it was.
C14_ShrinkIffNotBase ==
    [][(pc = "select") =>
          IF i_min' # 0
          THEN sigma'[1] * sigma[2] * max_evals =
                   sigma'[2] * sigma[1] * (max_evals - function_count)
          ELSE sigma' = sigma]_vars

\* a base-point iteration kept the scale an earlier iteration had shrunk
C14_Witness ==
    /\ pc \in {"top", "done"}
    /\ i_min = 0
    /\ sigma # <<1, 5>>
    /\ sigma[1] > 0

\* ---------------------------------------------------------------- C15
\* C15: the driver never stops by convergence while no improving iteration
\* has occurred (iteration = 1), whatever the tolerances; once one has
\* occurred, an iteration at whose end the relative-variable ratio or the
\* relative-objective ratio is below its tolerance ends the run, as a
\* feasibility stop if that test, made first, succeeds and as a convergence
\* stop otherwise; with both ratios at or above tolerance there is no
\* convergence stop.
C15_ConvergenceStop ==
    [][(pc = "select" /\ pc' # "error") =>
          LET below == Less(cvg_x', tol_x) \/ Less(cvg_f', tol_f)
              feas  == MaxG(g_opt') < tol_g /\ find_feas
          IN  /\ (iteration' = 1) => (outcome' # "converged")
              /\ (outcome' = "converged") => (iteration' > 1 /\ below /\ ~feas)
              /\ (iteration' > 1 /\ below) =>
                     /\ pc' = "done"
                     /\ outcome' = (IF feas THEN "feasible" ELSE "converged")]_vars

\* a run with a tolerance above the initial ratio 1.0 went through an
\* iteration without improvement, was not stopped, and stopped by convergence
\* at the end of its first improving iteration
C15_Witness ==
    /\ pc = "done"
    /\ outcome = "converged"
    /\ iteration = 2
    /\ tol_x = Loose
    /\ cvg_hst[2].n > cvg_hst[1].n + 3 * n_avg

C18_BestIsMinimum ==
    (pc \in {"top", "done"}) =>
        /\ \A p \in DOMAIN evaluated : f_opt <= evaluated[p].f
        /\ \E p \in DOMAIN evaluated : f_opt = evaluated[p].f

\* the quadratic probe of a second or later iteration returned the least
\* value of the run, with four distinct points evaluated before the return
C18_Witness ==
    /\ pc = "done"
    /\ quad_update
    /\ i_min = 3
    /\ f_opt = fa[4]
    /\ fa[4] < fa[2] /\ fa[4] < fa[3]
    /\ Cardinality(DOMAIN evaluated) >= 4

\* ---------------------------------------------------------------- C19
\* C19: the selection step never reads an unbound name.  The base value is
\* never below the best objective, so an iteration that selects the base
\* point (whose g1 may be unbound) leaves the incumbent and the history as
\* they were; candidate 4 is selected only once a quadratic point has been
\* evaluated in the run, so its auxiliary value c4 is bound; and whenever the
\* incumbent is replaced the constraint vector copied into it is bound.
C19_SelectionDefined ==
    /\ [](outcome # "NameError")
    /\ [](Seeded => f_opt <= fa[1])
    /\ [][(pc = "select") =>
             /\ (i_min' = 0) => UNCHANGED <<x_opt, f_opt, g_opt, cvg_hst, x1, g1>>
             /\ (i_min' = 3) => (c4 # Unassigned /\ g4 # Unassigned)
             /\ (i_min' > 0) => (g1' # Unassigned)
             /\ (cvg_hst' # cvg_hst) => (g1' # Unassigned /\ g_opt' = g1')]_vars

\* candidate 4 was selected in an iteration that evaluated no quadratic
\* point: its point, constraints and auxiliary value are those an earlier
\* iteration's quadratic probe had bound
C19_Witness ==
    /\ pc \in {"top", "done"}
    /\ i_min = 3
    /\ ~quad_update
    /\ c4 # Unassigned
    /\ g1 = g4

\* ---------------------------------------------------------------- C20
\* C20: at the start of every loop iteration the step-scale is strictly
\* positive and at most its initial value 0.2; it never increases; and an
\* iteration that leaves it zero or negative (a shrink factor
\* 1 - evaluations/budget <= 0) is the last one of the run.
C20_ScalePositiveAtLoopTop ==
    /\ [](pc \in {"top", "sec", "quad", "select"} =>
              (sigma[1] > 0 /\ sigma[2] > 0 /\ 5 * sigma[1] <= sigma[2]))
    /\ [][Seeded => (sigma'[1] * sigma[2] <= sigma[1] * sigma'[2])]_vars
    /\ [][(pc = "select" /\ i_min' > 0 /\ function_count >= max_evals) =>
              (sigma'[1] <= 0 /\ pc' \in {"done", "error"})]_vars
    /\ [][(pc = "select" /\ sigma'[1] <= 0) => (pc' \in {"done", "error"})]_vars

\* the last iteration overran the budget and left the step-scale negative
C20_Witness ==
    /\ pc = "done"
    /\ outcome = "budget"
    /\ i_min > 0
    /\ function_count > max_evals
    /\ sigma[1] < 0

\* ---------------------------------------------------------------- C17
\* C17: a call shares no random source with a concurrent call.  A step of
\* the other call leaves the value this call draws next as it was, and so
\* the directions this call draws follow its generator's own sequence (for
\* the generator of period two: each direction the opposite of the one
\* before), whatever the interleaving.
C17_IndependentStreams ==
    /\ [][(pc = "top" /\ pc' = "top") => (Randn(rng') = Randn(rng))]_vars
    /\ [][(pc = "top" /\ pc' = "sec" /\ r # 0) => (r' = -r)]_vars

=============================================================================
